---- MODULE Spec2Model ----
(***************************************************************************)
(* Sansar VAT encoder (src/__init__.py): OBJECT_OT_ProcessAnimMeshes.execute*)
(* and the functions it calls, as a state machine.                         *)
(*                                                                         *)
(* Representation.                                                         *)
(*  - A pixel is a 4-tuple <<c1, c2, c3, c4>>.  The numpy arrays offsets   *)
(*    and normals are kept pixel by pixel (row i of the (n,4) array is    *)
(*    pixel i; after flatten() pixel i is the slice [4i, 4i+4)), as        *)
(*    functions over 0 .. n-1.                                             *)
(*  - Vectors have integer components; every normal and tangent the model  *)
(*    feeds in is an axis-parallel unit vector, so all matrix arithmetic   *)
(*    is exact.                                                            *)
(*  - A quaternion is kept as the integer vector <<x, y, z, w>> in lowest  *)
(*    terms that it is the normalisation of: the stored unit quaternion is *)
(*    that vector divided by its length.  <<0,0,0,1>> is the identity.     *)
(*  - A mesh of the per-frame list is one of a few poses of one fan of     *)
(*    triangles; a pose fixes every vertex position and every loop's       *)
(*    normal and tangent.                                                  *)
(***************************************************************************)
EXTENDS Integers, Sequences, FiniteSets, TLC

VARIABLES
    vertex_count,       \* execute: sum of len(ob.data.vertices)
    frame_count,        \* execute: len(frame_range(scene))
    modifiers_allowed,  \* every modifier of every object is in allowed_modifiers
    zcurve,             \* sansar_vat_settings.zcurve
    pc,                 \* position in execute
    report,             \* what self.report was given, "none" before
    meshes,             \* get_per_frame_mesh_data: the list built so far
    offsets,            \* get_vertex_data / execute: offsets
    normals,            \* get_vertex_data / execute: normals
    start_of_frame,     \* get_vertex_data: start_of_frame
    mi,                 \* get_vertex_data: position of `me` in meshes (1-based)
    cur,                \* index of the next vertex / loop of the inner loop
    num_elements,       \* execute: num_elements
    imageWidth,         \* execute: imageWidth
    imageHeight,        \* execute: imageHeight
    offsets_z_curved,   \* execute: offsets_z_curved[y, x]
    normals_z_curved,   \* execute: normals_z_curved[y, x]
    idx,                \* execute: idx of the scatter loop
    offset_texture,     \* bake_vertex_data: offset_texture
    normal_texture      \* bake_vertex_data: normal_texture

vars == <<vertex_count, frame_count, modifiers_allowed, zcurve, pc, report,
          meshes, offsets, normals, start_of_frame, mi, cur, num_elements,
          imageWidth, imageHeight, offsets_z_curved, normals_z_curved, idx,
          offset_texture, normal_texture>>

(***************************************************************************)
(* Bounds of the model.                                                    *)
(***************************************************************************)
MaxVerts == 4
MaxFrames == 3
Margin == 2

(***************************************************************************)
(* Program constants.                                                      *)
(***************************************************************************)
imageWidthGranularity == 32
imageHeightGranularity == 32
VertexLimit == 4096 * 4095
FrameLimit == 4096
PixelLimit == 8192 * 8192

ZeroPixel == <<0, 0, 0, 0>>

(***************************************************************************)
(* Integer bit operations of Python (non-negative operands).               *)
(***************************************************************************)
RECURSIVE BitAnd(_, _)
BitAnd(a, b) ==
    IF a = 0 \/ b = 0 THEN 0
    ELSE (a % 2) * (b % 2) + 2 * BitAnd(a \div 2, b \div 2)

RECURSIVE BitOr(_, _)
BitOr(a, b) ==
    IF a = 0 THEN b
    ELSE IF b = 0 THEN a
    ELSE (IF a % 2 = 1 \/ b % 2 = 1 THEN 1 ELSE 0) + 2 * BitOr(a \div 2, b \div 2)

RECURSIVE Pow2(_)
Pow2(k) == IF k = 0 THEN 1 ELSE 2 * Pow2(k - 1)

ShiftRight(a, k) == a \div Pow2(k)

\* 0x55555555, 0x33333333, 0x0F0F0F0F, 0x00FF00FF, 0x0000FFFF
Mask55 == 1431655765
Mask33 == 858993459
Mask0F == 252645135
MaskFF == 16711935
MaskFFFF == 65535

(***************************************************************************)
(* Morton Index Mapper.                                                    *)
(***************************************************************************)
MortonCompact(c0) ==
    LET c1 == BitAnd(BitOr(c0, ShiftRight(c0, 1)), Mask33)
        c2 == BitAnd(BitOr(c1, ShiftRight(c1, 2)), Mask0F)
        c3 == BitAnd(BitOr(c2, ShiftRight(c2, 4)), MaskFF)
        c4 == BitAnd(BitOr(c3, ShiftRight(c3, 8)), MaskFFFF)
    IN  c4

DecodeMorton2X(code) == MortonCompact(BitAnd(code, Mask55))

DecodeMorton2Y_NoShift(code) == MortonCompact(BitAnd(code, Mask55))

DecodeMorton2Y(code) == MortonCompact(BitAnd(ShiftRight(code, 1), Mask55))

(***************************************************************************)
(* Header Codec: the header pixel get_vertex_data writes.                  *)
(***************************************************************************)
HeaderMSH(n) == (n \div 2048) - 2048
HeaderLSH(n) == (n % 2048) - 2048

HeaderPixel(vc, fc) == <<HeaderMSH(vc), HeaderLSH(vc), HeaderLSH(fc), 1>>

\* The consumer's decoding rule, n = (MSH + 2048)*2048 + (LSH + 2048).
DecodeHeader(msh, lsh) == (msh + 2048) * 2048 + (lsh + 2048)

\* The frame count has no MSH channel in the header: the consumer has the LSH
\* channel alone, i.e. an MSH channel reading as zero.
DecodeHeaderLSH(lsh) == lsh + 2048

(***************************************************************************)
(* mathutils: vectors, 3x3 matrices, quaternions (exact on the model's     *)
(* axis-parallel frames).                                                  *)
(***************************************************************************)
Sign(x) == IF x > 0 THEN 1 ELSE IF x < 0 THEN -1 ELSE 0
Abs(x) == IF x < 0 THEN -x ELSE x

VecSub(a, b) == <<a[1] - b[1], a[2] - b[2], a[3] - b[3]>>
VecAdd(a, b) == <<a[1] + b[1], a[2] + b[2], a[3] + b[3]>>

Cross(a, b) ==
    <<a[2] * b[3] - a[3] * b[2],
      a[3] * b[1] - a[1] * b[3],
      a[1] * b[2] - a[2] * b[1]>>

\* Vector.normalized() of an axis-parallel vector (the zero vector stays zero).
Normalized(v) == <<Sign(v[1]), Sign(v[2]), Sign(v[3])>>

\* mathutils.Matrix((r1, r2, r3)): the rows are r1, r2, r3.
Matrix(r1, r2, r3) == <<r1, r2, r3>>

Det(m) ==
      m[1][1] * (m[2][2] * m[3][3] - m[2][3] * m[3][2])
    - m[1][2] * (m[2][1] * m[3][3] - m[2][3] * m[3][1])
    + m[1][3] * (m[2][1] * m[3][2] - m[2][2] * m[3][1])

\* Matrix.inverted(): adjugate over determinant (the determinant of a frame
\* of axis-parallel unit vectors is 1 or -1, so the division is exact).
Inverted(m) ==
    LET d == Det(m)
        cof(i, j) ==
            LET r1 == (i % 3) + 1
                r2 == ((i + 1) % 3) + 1
                c1 == (j % 3) + 1
                c2 == ((j + 1) % 3) + 1
            IN  m[r1][c1] * m[r2][c2] - m[r1][c2] * m[r2][c1]
    IN  [i \in 1..3 |-> [j \in 1..3 |->
            IF d > 0 THEN cof(j, i) \div d ELSE (-cof(j, i)) \div (-d)]]

MatMul(a, b) ==
    [i \in 1..3 |-> [j \in 1..3 |->
        a[i][1] * b[1][j] + a[i][2] * b[2][j] + a[i][3] * b[3][j]]]

RECURSIVE Gcd(_, _)
Gcd(a, b) == IF b = 0 THEN a ELSE Gcd(b, a % b)

LowestTerms(q) ==
    LET g == Gcd(Gcd(Abs(q[1]), Abs(q[2])), Gcd(Abs(q[3]), Abs(q[4])))
    IN  IF g = 0 THEN q
        ELSE <<q[1] \div g, q[2] \div g, q[3] \div g, q[4] \div g>>

\* Matrix.to_quaternion() of a rotation matrix r (r[row][column]), as
\* <<x, y, z, w>>: the branch is chosen by the largest of w, x, y, z, and
\* each branch yields the quaternion up to the positive factor 1/(2*sqrt(t)).
ToQuaternion(r) ==
    LET pick ==
        IF r[3][3] < 0
          THEN IF r[1][1] > r[2][2]
                 THEN LET t == 1 + r[1][1] - r[2][2] - r[3][3]
                          s == IF r[3][2] < r[2][3] THEN -1 ELSE 1
                      IN  <<s * t, s * (r[2][1] + r[1][2]),
                            s * (r[1][3] + r[3][1]), s * (r[3][2] - r[2][3])>>
                 ELSE LET t == 1 - r[1][1] + r[2][2] - r[3][3]
                          s == IF r[1][3] < r[3][1] THEN -1 ELSE 1
                      IN  <<s * (r[2][1] + r[1][2]), s * t,
                            s * (r[3][2] + r[2][3]), s * (r[1][3] - r[3][1])>>
          ELSE IF r[1][1] < -r[2][2]
                 THEN LET t == 1 - r[1][1] - r[2][2] + r[3][3]
                          s == IF r[2][1] < r[1][2] THEN -1 ELSE 1
                      IN  <<s * (r[1][3] + r[3][1]), s * (r[3][2] + r[2][3]),
                            s * t, s * (r[2][1] - r[1][2])>>
                 ELSE LET t == 1 + r[1][1] + r[2][2] + r[3][3]
                      IN  <<r[3][2] - r[2][3], r[1][3] - r[3][1],
                            r[2][1] - r[1][2], t>>
    IN  LowestTerms(pick)

IdentityQuat == <<0, 0, 0, 1>>

(***************************************************************************)
(* The sampled meshes.  A mesh is a record of what get_vertex_data reads:  *)
(* co[v] (me.vertices[v].co), and per loop l normal[l], tangent[l] and     *)
(* vertex_index[l] (me.loops[l]...), vertices and loops counted from 0.    *)
(* Every mesh of the list has vertex_count vertices (the allowed modifiers *)
(* only deform) and the loops of a fan of triangles (0, k+1, k+2),         *)
(* k = 0 .. vertex_count-3: loop 3k+j is corner j of triangle k.           *)
(***************************************************************************)
Poses == {"rest", "lift", "turn", "fold"}

FanLoops(vc) == IF vc >= 3 THEN 3 * (vc - 2) ELSE 0

FanVertexIndex(l) == IF l % 3 = 0 THEN 0 ELSE (l \div 3) + (l % 3)

RestCo(v) == <<v % 2, v \div 2, 0>>

PoseCo(p, v) ==
    LET c == RestCo(v)
    IN  CASE p = "rest" -> c
          [] p = "lift" -> VecAdd(c, <<0, 0, 1>>)
          [] p = "turn" -> <<-c[2], c[1], c[3]>>
          [] p = "fold" -> IF v % 2 = 1 THEN VecAdd(c, <<0, 0, 1>>) ELSE c

\* "fold" tips the odd triangles over
PoseNormal(p, l) ==
    IF p = "fold" /\ (l \div 3) % 2 = 1 THEN <<0, -1, 0>> ELSE <<0, 0, 1>>

\* "turn" turns the tangents about the normal
PoseTangent(p, l) ==
    IF p = "turn" THEN <<0, 1, 0>> ELSE <<1, 0, 0>>

PoseMesh(p, vc) ==
    [co           |-> [v \in 0 .. vc - 1 |-> PoseCo(p, v)],
     normal       |-> [l \in 0 .. FanLoops(vc) - 1 |-> PoseNormal(p, l)],
     tangent      |-> [l \in 0 .. FanLoops(vc) - 1 |-> PoseTangent(p, l)],
     vertex_index |-> [l \in 0 .. FanLoops(vc) - 1 |-> FanVertexIndex(l)]]

\* A mesh at rest all of whose loops carry the normal n and the tangent t.
FramedMesh(n, t, vc) ==
    [co           |-> [v \in 0 .. vc - 1 |-> RestCo(v)],
     normal       |-> [l \in 0 .. FanLoops(vc) - 1 |-> n],
     tangent      |-> [l \in 0 .. FanLoops(vc) - 1 |-> t],
     vertex_index |-> [l \in 0 .. FanLoops(vc) - 1 |-> FanVertexIndex(l)]]

Size(a) == Cardinality(DOMAIN a)

\* len(me.vertices), len(me.loops)
NumVertices(me) == Size(me.co)
NumLoops(me) == Size(me.normal)

(***************************************************************************)
(* get_vertex_data, lines 229-241: the frames and the quaternion of loop l *)
(* of mesh `me` against the same loop of the reference mesh `me0`.         *)
(***************************************************************************)
LoopFrame(me, l) ==
    LET N == Normalized(me.normal[l])
        T == Normalized(me.tangent[l])
        B == Normalized(Cross(N, T))
    IN  Matrix(N, T, B)

\* M.inverted() raises ValueError on a matrix that has no inverse
InvertedRaises(me, l) == Det(LoopFrame(me, l)) = 0

LoopQuaternion_NoInverse(me0, me, l) ==
    LET M0 == LoopFrame(me0, l)
        M  == LoopFrame(me, l)
        rot == MatMul(M, M0)
    IN  ToQuaternion(rot)

LoopQuaternion(me0, me, l) ==
    LET M0 == LoopFrame(me0, l)
        M  == LoopFrame(me, l)
        rot == MatMul(Inverted(M), M0)
    IN  ToQuaternion(rot)

\* get_vertex_data, line 219-220: the offset pixel of vertex v
OffsetPixel(me0, me, v) ==
    LET offset == VecSub(me.co[v], me0.co[v])
    IN  <<offset[1], offset[2], offset[3], 1>>

\* get_vertex_data, line 251: the slot of the normals array loop l writes
RotationSlot_LoopIndex(start, me, l) == start + l

RotationSlot(start, me, l) == start + me.vertex_index[l]

\* get_vertex_data, line 220: the slot of the offsets array vertex v writes
OffsetSlot_NoHeader(start, v) == start + v - 1

OffsetSlot(start, v) == start + v

(***************************************************************************)
(* Capacity checks of execute.                                             *)
(***************************************************************************)
PixelsRequired(vc, fc) == fc * vc + 1

CheckModifiers ==
    /\ pc = "check_modifiers"
    /\ IF ~modifiers_allowed
         THEN /\ report' = "ModifierNotAllowed"
              /\ pc' = "cancelled"
         ELSE /\ report' = report
              /\ pc' = "check_vertices"
    /\ UNCHANGED <<vertex_count, frame_count, modifiers_allowed, zcurve,
                   meshes, offsets, normals, start_of_frame, mi, cur,
                   num_elements, imageWidth, imageHeight, offsets_z_curved,
                   normals_z_curved, idx, offset_texture, normal_texture>>

CheckVertexLimit_NoReturn ==
    /\ pc = "check_vertices"
    /\ report' = IF vertex_count > VertexLimit THEN "VertexLimitExceeded" ELSE report
    /\ pc' = "check_frames"
    /\ UNCHANGED <<vertex_count, frame_count, modifiers_allowed, zcurve,
                   meshes, offsets, normals, start_of_frame, mi, cur,
                   num_elements, imageWidth, imageHeight, offsets_z_curved,
                   normals_z_curved, idx, offset_texture, normal_texture>>

CheckVertexLimit_OffByOne ==
    /\ pc = "check_vertices"
    /\ IF vertex_count >= VertexLimit
         THEN /\ report' = "VertexLimitExceeded"
              /\ pc' = "cancelled"
         ELSE /\ report' = report
              /\ pc' = "check_frames"
    /\ UNCHANGED <<vertex_count, frame_count, modifiers_allowed, zcurve,
                   meshes, offsets, normals, start_of_frame, mi, cur,
                   num_elements, imageWidth, imageHeight, offsets_z_curved,
                   normals_z_curved, idx, offset_texture, normal_texture>>

CheckVertexLimit ==
    /\ pc = "check_vertices"
    /\ IF vertex_count > VertexLimit
         THEN /\ report' = "VertexLimitExceeded"
              /\ pc' = "cancelled"
         ELSE /\ report' = report
              /\ pc' = "check_frames"
    /\ UNCHANGED <<vertex_count, frame_count, modifiers_allowed, zcurve,
                   meshes, offsets, normals, start_of_frame, mi, cur,
                   num_elements, imageWidth, imageHeight, offsets_z_curved,
                   normals_z_curved, idx, offset_texture, normal_texture>>

CheckFrameLimit_OffByOne ==
    /\ pc = "check_frames"
    /\ IF frame_count >= FrameLimit
         THEN /\ report' = "FrameLimitExceeded"
              /\ pc' = "cancelled"
         ELSE /\ report' = report
              /\ pc' = "check_pixels"
    /\ UNCHANGED <<vertex_count, frame_count, modifiers_allowed, zcurve,
                   meshes, offsets, normals, start_of_frame, mi, cur,
                   num_elements, imageWidth, imageHeight, offsets_z_curved,
                   normals_z_curved, idx, offset_texture, normal_texture>>

CheckFrameLimit ==
    /\ pc = "check_frames"
    /\ IF frame_count > FrameLimit
         THEN /\ report' = "FrameLimitExceeded"
              /\ pc' = "cancelled"
         ELSE /\ report' = report
              /\ pc' = "check_pixels"
    /\ UNCHANGED <<vertex_count, frame_count, modifiers_allowed, zcurve,
                   meshes, offsets, normals, start_of_frame, mi, cur,
                   num_elements, imageWidth, imageHeight, offsets_z_curved,
                   normals_z_curved, idx, offset_texture, normal_texture>>

CheckPixelBudget_NoHeader ==
    /\ pc = "check_pixels"
    /\ IF frame_count * vertex_count > PixelLimit
         THEN /\ report' = "PixelBudgetExceeded"
              /\ pc' = "cancelled"
         ELSE /\ report' = report
              /\ pc' = "sample"
    /\ UNCHANGED <<vertex_count, frame_count, modifiers_allowed, zcurve,
                   meshes, offsets, normals, start_of_frame, mi, cur,
                   num_elements, imageWidth, imageHeight, offsets_z_curved,
                   normals_z_curved, idx, offset_texture, normal_texture>>

\* the pixel budget check that lets every animation through
CheckPixelBudget_NeverCancels ==
    /\ pc = "check_pixels"
    /\ report' = report
    /\ pc' = "sample"
    /\ UNCHANGED <<vertex_count, frame_count, modifiers_allowed, zcurve,
                   meshes, offsets, normals, start_of_frame, mi, cur,
                   num_elements, imageWidth, imageHeight, offsets_z_curved,
                   normals_z_curved, idx, offset_texture, normal_texture>>

CheckPixelBudget ==
    /\ pc = "check_pixels"
    /\ IF PixelsRequired(vertex_count, frame_count) > PixelLimit
         THEN /\ report' = "PixelBudgetExceeded"
              /\ pc' = "cancelled"
         ELSE /\ report' = report
              /\ pc' = "sample"
    /\ UNCHANGED <<vertex_count, frame_count, modifiers_allowed, zcurve,
                   meshes, offsets, normals, start_of_frame, mi, cur,
                   num_elements, imageWidth, imageHeight, offsets_z_curved,
                   normals_z_curved, idx, offset_texture, normal_texture>>

(***************************************************************************)
(* The state execute starts the checks in: nothing sampled, allocated or   *)
(* baked.                                                                  *)
(***************************************************************************)
Fresh ==
    /\ pc = "check_modifiers"
    /\ report = "none"
    /\ meshes = <<>>
    /\ offsets = <<>>
    /\ normals = <<>>
    /\ start_of_frame = 0
    /\ mi = 0
    /\ cur = 0
    /\ num_elements = 0
    /\ imageWidth = 0
    /\ imageHeight = 0
    /\ offsets_z_curved = <<>>
    /\ normals_z_curved = <<>>
    /\ idx = 0
    /\ offset_texture = "none"
    /\ normal_texture = "none"

(***************************************************************************)
(* get_per_frame_mesh_data: one mesh is appended per frame of the range.   *)
(***************************************************************************)
SampleFrame ==
    /\ pc = "sample"
    /\ Len(meshes) < frame_count
    /\ \E p \in Poses : meshes' = Append(meshes, PoseMesh(p, vertex_count))
    /\ UNCHANGED <<vertex_count, frame_count, modifiers_allowed, zcurve, pc,
                   report, offsets, normals, start_of_frame, mi, cur,
                   num_elements, imageWidth, imageHeight, offsets_z_curved,
                   normals_z_curved, idx, offset_texture, normal_texture>>

SampleDone ==
    /\ pc = "sample"
    /\ Len(meshes) = frame_count
    /\ pc' = "header"
    /\ UNCHANGED <<vertex_count, frame_count, modifiers_allowed, zcurve,
                   report, meshes, offsets, normals, start_of_frame, mi, cur,
                   num_elements, imageWidth, imageHeight, offsets_z_curved,
                   normals_z_curved, idx, offset_texture, normal_texture>>

(***************************************************************************)
(* get_vertex_data, lines 196-214: allocation and header.                  *)
(***************************************************************************)
Zeros(n) == [i \in 0 .. n - 1 |-> ZeroPixel]

WriteHeader ==
    /\ pc = "header"
    /\ LET n == NumVertices(meshes[1]) * Len(meshes) + 1
           header == HeaderPixel(vertex_count, frame_count)
       IN  /\ offsets' = [Zeros(n) EXCEPT ![0] = header]
           /\ normals' = [Zeros(n) EXCEPT ![0] = header]
    /\ start_of_frame' = 1
    /\ mi' = 1
    /\ cur' = 0
    /\ pc' = "vertices"
    /\ UNCHANGED <<vertex_count, frame_count, modifiers_allowed, zcurve,
                   report, meshes, num_elements, imageWidth, imageHeight,
                   offsets_z_curved, normals_z_curved, idx, offset_texture,
                   normal_texture>>

(***************************************************************************)
(* get_vertex_data, lines 215-254: the loop over the meshes.               *)
(***************************************************************************)
VertexStep ==
    /\ pc = "vertices"
    /\ cur < NumVertices(meshes[mi])
    /\ offsets' = [offsets EXCEPT ![OffsetSlot(start_of_frame, cur)] =
                                      OffsetPixel(meshes[1], meshes[mi], cur)]
    /\ cur' = cur + 1
    /\ UNCHANGED <<vertex_count, frame_count, modifiers_allowed, zcurve, pc,
                   report, meshes, normals, start_of_frame, mi, num_elements,
                   imageWidth, imageHeight, offsets_z_curved, normals_z_curved,
                   idx, offset_texture, normal_texture>>

VerticesDone ==
    /\ pc = "vertices"
    /\ cur = NumVertices(meshes[mi])
    /\ pc' = "loops"
    /\ cur' = 0
    /\ UNCHANGED <<vertex_count, frame_count, modifiers_allowed, zcurve,
                   report, meshes, offsets, normals, start_of_frame, mi,
                   num_elements, imageWidth, imageHeight, offsets_z_curved,
                   normals_z_curved, idx, offset_texture, normal_texture>>

\* One pass of `for l in me.loops`; a frame without an inverse ends execute
\* with the ValueError of M.inverted().
LoopStep ==
    /\ pc = "loops"
    /\ cur < NumLoops(meshes[mi])
    /\ IF InvertedRaises(meshes[mi], cur)
         THEN /\ pc' = "raised"
              /\ UNCHANGED <<normals, cur>>
         ELSE /\ LET quat == LoopQuaternion(meshes[1], meshes[mi], cur)
                 IN  normals' =
                        [normals EXCEPT ![RotationSlot(start_of_frame, meshes[mi], cur)] =
                                            <<quat[1], quat[2], quat[3], quat[4]>>]
              /\ cur' = cur + 1
              /\ pc' = pc
    /\ UNCHANGED <<vertex_count, frame_count, modifiers_allowed, zcurve,
                   report, meshes, offsets, start_of_frame, mi, num_elements,
                   imageWidth, imageHeight, offsets_z_curved, normals_z_curved,
                   idx, offset_texture, normal_texture>>

EndFrame ==
    /\ pc = "loops"
    /\ cur = NumLoops(meshes[mi])
    /\ start_of_frame' = start_of_frame + NumVertices(meshes[mi])
    /\ mi' = mi + 1
    /\ cur' = 0
    /\ pc' = IF mi < Len(meshes) THEN "vertices" ELSE "return"
    /\ UNCHANGED <<vertex_count, frame_count, modifiers_allowed, zcurve,
                   report, meshes, offsets, normals, num_elements, imageWidth,
                   imageHeight, offsets_z_curved, normals_z_curved, idx,
                   offset_texture, normal_texture>>

\* get_vertex_data, lines 257-267, and execute, lines 484-485
ReturnVertexData ==
    /\ pc = "return"
    /\ num_elements' = Size(offsets)
    /\ pc' = "layout"
    /\ UNCHANGED <<vertex_count, frame_count, modifiers_allowed, zcurve,
                   report, meshes, offsets, normals, start_of_frame, mi, cur,
                   imageWidth, imageHeight, offsets_z_curved, normals_z_curved,
                   idx, offset_texture, normal_texture>>

(***************************************************************************)
(* execute, lines 487-519: Layout Packer.                                  *)
(***************************************************************************)
Max(S) == CHOOSE m \in S : \A k \in S : k <= m

\* the next multiple of g above a, a itself never kept
CeilToGranularity_NextMultiple(a, g) == (a \div g + 1) * g

\* int(math.ceil(a / g) * g)
CeilToGranularity(a, g) == ((a + g - 1) \div g) * g

ZCurveBegin ==
    /\ pc = "layout"
    /\ zcurve
    /\ LET max_x == Max({DecodeMorton2X(i) : i \in 0 .. num_elements - 1}) + 1
           max_y == Max({DecodeMorton2Y(i) : i \in 0 .. num_elements - 1}) + 1
           w == CeilToGranularity(max_x, imageWidthGranularity)
           h == CeilToGranularity(max_y, imageHeightGranularity)
       IN  /\ imageWidth' = w
           /\ imageHeight' = h
           /\ offsets_z_curved' = [c \in (0 .. h - 1) \X (0 .. w - 1) |-> ZeroPixel]
           /\ normals_z_curved' = [c \in (0 .. h - 1) \X (0 .. w - 1) |-> ZeroPixel]
    /\ idx' = 0
    /\ pc' = "scatter"
    /\ UNCHANGED <<vertex_count, frame_count, modifiers_allowed, zcurve,
                   report, meshes, offsets, normals, start_of_frame, mi, cur,
                   num_elements, offset_texture, normal_texture>>

ScatterStep ==
    /\ pc = "scatter"
    /\ idx < num_elements
    /\ LET x == DecodeMorton2X(idx)
           y == DecodeMorton2Y(idx)
       IN  /\ offsets_z_curved' = [offsets_z_curved EXCEPT ![<<y, x>>] = offsets[idx]]
           /\ normals_z_curved' = [normals_z_curved EXCEPT ![<<y, x>>] = normals[idx]]
    /\ idx' = idx + 1
    /\ UNCHANGED <<vertex_count, frame_count, modifiers_allowed, zcurve, pc,
                   report, meshes, offsets, normals, start_of_frame, mi, cur,
                   num_elements, imageWidth, imageHeight, offset_texture,
                   normal_texture>>

\* ndarray.flatten() of a (height, width, 4) array, pixel by pixel
Flatten(grid, h, w) == [i \in 0 .. h * w - 1 |-> grid[<<i \div w, i % w>>]]

ZCurveEnd ==
    /\ pc = "scatter"
    /\ idx = num_elements
    /\ offsets' = Flatten(offsets_z_curved, imageHeight, imageWidth)
    /\ normals' = Flatten(normals_z_curved, imageHeight, imageWidth)
    /\ pc' = "bake"
    /\ UNCHANGED <<vertex_count, frame_count, modifiers_allowed, zcurve,
                   report, meshes, start_of_frame, mi, cur, num_elements,
                   imageWidth, imageHeight, offsets_z_curved, normals_z_curved,
                   idx, offset_texture, normal_texture>>

\* the flat array handed on whole, header pixel included
KeepFirstPixel(a) == a

\* a[4:] of the flat array: the first pixel is dropped
DropFirstPixel(a) == [i \in 0 .. Size(a) - 2 |-> a[i + 1]]

\* the linear layout with the two image dimensions exchanged
LinearLayout_Transposed ==
    /\ pc = "layout"
    /\ ~zcurve
    /\ offsets' = DropFirstPixel(offsets)
    /\ normals' = DropFirstPixel(normals)
    /\ imageWidth' = frame_count
    /\ imageHeight' = vertex_count
    /\ pc' = "bake"
    /\ UNCHANGED <<vertex_count, frame_count, modifiers_allowed, zcurve,
                   report, meshes, start_of_frame, mi, cur, num_elements,
                   offsets_z_curved, normals_z_curved, idx, offset_texture,
                   normal_texture>>

LinearLayout ==
    /\ pc = "layout"
    /\ ~zcurve
    /\ offsets' = DropFirstPixel(offsets)
    /\ normals' = DropFirstPixel(normals)
    /\ imageWidth' = vertex_count
    /\ imageHeight' = frame_count
    /\ pc' = "bake"
    /\ UNCHANGED <<vertex_count, frame_count, modifiers_allowed, zcurve,
                   report, meshes, start_of_frame, mi, cur, num_elements,
                   offsets_z_curved, normals_z_curved, idx, offset_texture,
                   normal_texture>>

(***************************************************************************)
(* bake_vertex_data, called with texture_size = imageWidth, imageHeight.   *)
(***************************************************************************)
bake_vertex_data ==
    /\ pc = "bake"
    /\ offset_texture' = [width |-> imageWidth, height |-> imageHeight,
                          pixels |-> offsets]
    /\ normal_texture' = [width |-> imageWidth, height |-> imageHeight,
                          pixels |-> normals]
    /\ pc' = "finished"
    /\ UNCHANGED <<vertex_count, frame_count, modifiers_allowed, zcurve,
                   report, meshes, offsets, normals, start_of_frame, mi, cur,
                   num_elements, imageWidth, imageHeight, offsets_z_curved,
                   normals_z_curved, idx>>

(***************************************************************************)
(* The whole of execute, on small animations and on three animations that  *)
(* are over one limit each.                                                *)
(***************************************************************************)
OverLimitInputs ==
    {<<VertexLimit + 1, 1>>, <<1, FrameLimit + 1>>, <<16384, FrameLimit>>}

Inputs == ((1 .. MaxVerts) \X (1 .. MaxFrames)) \cup OverLimitInputs

Init ==
    /\ \E in \in Inputs :
          /\ vertex_count = in[1]
          /\ frame_count = in[2]
    /\ modifiers_allowed \in BOOLEAN
    /\ zcurve \in BOOLEAN
    /\ Fresh

Next ==
    \/ CheckModifiers
    \/ CheckVertexLimit
    \/ CheckFrameLimit
    \/ CheckPixelBudget
    \/ SampleFrame
    \/ SampleDone
    \/ WriteHeader
    \/ VertexStep
    \/ VerticesDone
    \/ LoopStep
    \/ EndFrame
    \/ ReturnVertexData
    \/ ZCurveBegin
    \/ ScatterStep
    \/ ZCurveEnd
    \/ LinearLayout
    \/ bake_vertex_data

Spec == Init /\ [][Next]_vars

(***************************************************************************)
(* The capacity validator on its own, on inputs around each limit.  The    *)
(* products of the inputs stay below 2^31.                                 *)
(***************************************************************************)
Around(n) == { k \in (n - Margin) .. (n + Margin) : k >= 1 }

CapacityVertexCounts ==
    Around(1) \cup Around(16384) \cup Around(24573) \cup Around(VertexLimit)

CapacityFrameCounts ==
    Around(1) \cup Around(2731) \cup Around(FrameLimit)

CapacityInputs ==
    { in \in CapacityVertexCounts \X CapacityFrameCounts :
        in[1] <= 2147483646 \div in[2] }

InitCapacity ==
    /\ \E in \in CapacityInputs :
          /\ vertex_count = in[1]
          /\ frame_count = in[2]
    /\ modifiers_allowed \in BOOLEAN
    /\ zcurve \in BOOLEAN
    /\ Fresh

NextCapacity ==
    \/ CheckModifiers
    \/ CheckVertexLimit
    \/ CheckFrameLimit
    \/ CheckPixelBudget

SpecCapacity == InitCapacity /\ [][NextCapacity]_vars

(***************************************************************************)
(* The header codec on its own: get_vertex_data's allocation and header,   *)
(* on frame counts around 1, 2048 and 4096, from the state execute calls   *)
(* it in.                                                                  *)
(***************************************************************************)
HeaderFrameCounts == Around(1) \cup Around(2048) \cup Around(FrameLimit - 1)

InitHeader ==
    /\ vertex_count \in 1 .. MaxVerts
    /\ frame_count \in { n \in HeaderFrameCounts : n <= FrameLimit }
    /\ modifiers_allowed = TRUE
    /\ zcurve \in BOOLEAN
    /\ pc = "header"
    /\ report = "none"
    /\ \E p \in {"rest", "lift"} :
          meshes = [f \in 1 .. frame_count |-> PoseMesh(p, vertex_count)]
    /\ offsets = <<>>
    /\ normals = <<>>
    /\ start_of_frame = 0
    /\ mi = 0
    /\ cur = 0
    /\ num_elements = 0
    /\ imageWidth = 0
    /\ imageHeight = 0
    /\ offsets_z_curved = <<>>
    /\ normals_z_curved = <<>>
    /\ idx = 0
    /\ offset_texture = "none"
    /\ normal_texture = "none"

NextHeader == WriteHeader

SpecHeader == InitHeader /\ [][NextHeader]_vars

(***************************************************************************)
(* The rotation extractor on its own: get_vertex_data on one triangle in   *)
(* two frames, a reference mesh and a current mesh, each carrying any      *)
(* normal and any tangent among the six axis directions (a tangent along   *)
(* the normal included).                                                   *)
(***************************************************************************)
Axes == {<<1, 0, 0>>, <<-1, 0, 0>>, <<0, 1, 0>>, <<0, -1, 0>>, <<0, 0, 1>>, <<0, 0, -1>>}

InitRotation ==
    /\ vertex_count = 3
    /\ frame_count = 2
    /\ modifiers_allowed = TRUE
    /\ zcurve \in BOOLEAN
    /\ pc = "header"
    /\ report = "none"
    /\ \E n0, t0, n, t \in Axes :
          meshes = <<FramedMesh(n0, t0, vertex_count), FramedMesh(n, t, vertex_count)>>
    /\ offsets = <<>>
    /\ normals = <<>>
    /\ start_of_frame = 0
    /\ mi = 0
    /\ cur = 0
    /\ num_elements = 0
    /\ imageWidth = 0
    /\ imageHeight = 0
    /\ offsets_z_curved = <<>>
    /\ normals_z_curved = <<>>
    /\ idx = 0
    /\ offset_texture = "none"
    /\ normal_texture = "none"

NextRotation ==
    \/ WriteHeader
    \/ VertexStep
    \/ VerticesDone
    \/ LoopStep
    \/ EndFrame
    \/ ReturnVertexData

SpecRotation == InitRotation /\ [][NextRotation]_vars

(***************************************************************************)
(* The Z-curve packer on its own: execute from line 487 on, in the state   *)
(* get_vertex_data returns in, with the scatter loop taken in one step.    *)
(* The animations are the small ones and some whose pixel counts lie       *)
(* around 1024 and 2048, where the grid fills its first 32 x 32 granule    *)
(* and grows past it.                                                      *)
(***************************************************************************)
\* the offsets array get_vertex_data returns for the meshes ms
ReturnedOffsets(ms, vc) ==
    [i \in 0 .. vc * Len(ms) |->
        IF i = 0 THEN HeaderPixel(vc, Len(ms))
        ELSE OffsetPixel(ms[1], ms[((i - 1) \div vc) + 1], (i - 1) % vc)]

\* the last loop of the mesh me that refers to vertex v, -1 without one
LastLoopOf(me, v) ==
    LET ls == { l \in DOMAIN me.vertex_index : me.vertex_index[l] = v }
    IN  IF ls = {} THEN -1 ELSE Max(ls)

\* the normals array get_vertex_data returns for the meshes ms
ReturnedNormals(ms, vc) ==
    LET last == [v \in 0 .. vc - 1 |-> LastLoopOf(ms[1], v)]
    IN  [i \in 0 .. vc * Len(ms) |->
            IF i = 0 THEN HeaderPixel(vc, Len(ms))
            ELSE IF last[(i - 1) % vc] = -1 THEN ZeroPixel
            ELSE LoopQuaternion(ms[1], ms[((i - 1) \div vc) + 1], last[(i - 1) % vc])]

\* the loop of lines 500-506 over the indices lo .. hi - 1 in rising order:
\* ScatterStep, once per index
RECURSIVE ScatterLoop(_, _, _, _)
ScatterLoop(grid, buf, lo, hi) ==
    IF lo >= hi THEN grid
    ELSE IF hi = lo + 1
        THEN [grid EXCEPT ![<<DecodeMorton2Y(lo), DecodeMorton2X(lo)>>] = buf[lo]]
    ELSE LET mid == (lo + hi) \div 2
             first == ScatterLoop(grid, buf, lo, mid)
         IN  \* the first half is worked out before the second is begun
             IF DOMAIN first = DOMAIN grid
             THEN ScatterLoop(first, buf, mid, hi)
             ELSE first

\* the whole loop of lines 500-506 in one step
ScatterAll ==
    /\ pc = "scatter"
    /\ idx = 0
    /\ num_elements > 0
    /\ offsets_z_curved' = ScatterLoop(offsets_z_curved, offsets, 0, num_elements)
    /\ normals_z_curved' = ScatterLoop(normals_z_curved, normals, 0, num_elements)
    /\ idx' = num_elements
    /\ UNCHANGED <<vertex_count, frame_count, modifiers_allowed, zcurve, pc,
                   report, meshes, offsets, normals, start_of_frame, mi, cur,
                   num_elements, imageWidth, imageHeight, offset_texture,
                   normal_texture>>

ZCurveInputs ==
    ((1 .. MaxVerts) \X (1 .. MaxFrames))
        \cup {<<2, 511>>, <<3, 341>>, <<4, 256>>, <<1, 1025>>, <<3, 682>>,
               <<2, 1023>>, <<4, 512>>, <<3, 683>>}

InitZCurve ==
    /\ \E in \in ZCurveInputs :
          /\ vertex_count = in[1]
          /\ frame_count = in[2]
    /\ modifiers_allowed = TRUE
    /\ zcurve = TRUE
    /\ pc = "layout"
    /\ report = "none"
    /\ \E p \in {"lift", "turn"} :
          meshes = [f \in 1 .. frame_count |->
                       PoseMesh(IF f = 1 THEN "rest" ELSE p, vertex_count)]
    /\ offsets = ReturnedOffsets(meshes, vertex_count)
    /\ normals = ReturnedNormals(meshes, vertex_count)
    /\ start_of_frame = 1 + vertex_count * frame_count
    /\ mi = frame_count + 1
    /\ cur = 0
    /\ num_elements = vertex_count * frame_count + 1
    /\ imageWidth = 0
    /\ imageHeight = 0
    /\ offsets_z_curved = <<>>
    /\ normals_z_curved = <<>>
    /\ idx = 0
    /\ offset_texture = "none"
    /\ normal_texture = "none"

NextZCurve ==
    \/ ZCurveBegin
    \/ ScatterAll
    \/ ZCurveEnd
    \/ bake_vertex_data

SpecZCurve == InitZCurve /\ [][NextZCurve]_vars

(***************************************************************************)
(* The texture size on its own, on animations around each limit.  The size *)
(* depends on the two counts only: get_vertex_data returns                 *)
(* len(original)*len(meshes) + 1 pixels, and lines 487-519 derive the      *)
(* width and the height from that number and from the two counts.  The     *)
(* largest decoded x and y over the indices 0 .. m, which lines 491-492    *)
(* find by going through every index, are worked out here from the bits of *)
(* m: the top bit of m is an x bit or a y bit, the indices below it fill   *)
(* the square or the half square under it, and the indices from it on      *)
(* repeat the pattern of the remaining m - 2^k.                            *)
(***************************************************************************)
RECURSIVE HighBit(_)
HighBit(m) == IF m <= 1 THEN 0 ELSE 1 + HighBit(m \div 2)

RECURSIVE MaxMortonX(_)
MaxMortonX(m) ==
    IF m = 0 THEN 0
    ELSE LET k == HighBit(m)
         IN  IF k % 2 = 0
             THEN Pow2(k \div 2) + MaxMortonX(m - Pow2(k))
             ELSE Pow2((k + 1) \div 2) - 1

RECURSIVE MaxMortonY(_)
MaxMortonY(m) ==
    IF m = 0 THEN 0
    ELSE LET k == HighBit(m)
         IN  IF k % 2 = 1
             THEN Pow2(k \div 2) + MaxMortonY(m - Pow2(k))
             ELSE Pow2(k \div 2) - 1

\* lines 485-495 and 518-519 for an animation that passed the checks
TextureSize ==
    /\ pc = "sample"
    /\ num_elements' = vertex_count * frame_count + 1
    /\ IF zcurve
         THEN LET max_x == MaxMortonX(vertex_count * frame_count) + 1
                  max_y == MaxMortonY(vertex_count * frame_count) + 1
              IN  /\ imageWidth' = CeilToGranularity(max_x, imageWidthGranularity)
                  /\ imageHeight' = CeilToGranularity(max_y, imageHeightGranularity)
         ELSE /\ imageWidth' = vertex_count
              /\ imageHeight' = frame_count
    /\ pc' = "sized"
    /\ UNCHANGED <<vertex_count, frame_count, modifiers_allowed, zcurve,
                   report, meshes, offsets, normals, start_of_frame, mi, cur,
                   offsets_z_curved, normals_z_curved, idx, offset_texture,
                   normal_texture>>

NextTextureSize ==
    \/ CheckModifiers
    \/ CheckVertexLimit
    \/ CheckFrameLimit
    \/ CheckPixelBudget
    \/ TextureSize

SpecTextureSize == InitCapacity /\ [][NextTextureSize]_vars

(***************************************************************************)
(* Properties.                                                             *)
(***************************************************************************)
Validating == pc \in {"check_modifiers", "check_vertices", "check_frames", "check_pixels"}

NothingProduced ==
    /\ meshes = <<>>
    /\ offsets = <<>>
    /\ normals = <<>>
    /\ offsets_z_curved = <<>>
    /\ normals_z_curved = <<>>
    /\ offset_texture = "none"
    /\ normal_texture = "none"

CapacityExceeded ==
    \/ vertex_count > 16773120
    \/ frame_count > 4096
    \/ frame_count * vertex_count + 1 > 67108864

\* C1: on an input that fails one of the three capacity checks, execute never
\* leaves the checks except by cancelling: no mesh is ever sampled, no buffer
\* ever allocated, no texture ever created, and once it has cancelled with its
\* failure report nothing further runs.
C1_FailureBeforeAnyWork ==
    CapacityExceeded =>
        /\ Validating \/ pc = "cancelled"
        /\ NothingProduced
        /\ pc = "cancelled" =>
              /\ report \in {"ModifierNotAllowed", "VertexLimitExceeded",
                             "FrameLimitExceeded", "PixelBudgetExceeded"}
              /\ ~ENABLED Next

C1_Witness ==
    /\ pc = "cancelled"
    /\ report = "PixelBudgetExceeded"
    /\ NothingProduced

\* C2: once the header is written, decoding pixel 0 of both buffers with
\* n = (MSH + 2048)*2048 + (LSH + 2048) gives back the vertex count, and the
\* frame count's LSH channel alone gives back every frame count in [0, 4095].
C2_HeaderRoundTrip ==
    (pc = "vertices" /\ frame_count <= 4095) =>
        /\ DecodeHeader(offsets[0][1], offsets[0][2]) = vertex_count
        /\ DecodeHeaderLSH(offsets[0][3]) = frame_count
        /\ normals[0] = offsets[0]

\* The quaternion pixel of loop c in frame f (0-based) as get_vertex_data
\* computes it from the sampled meshes.
QuatPixel(f, c) == LoopQuaternion(meshes[1], meshes[f + 1], c)

LoopCount == NumLoops(meshes[1])

\* C3 as claimed: after the loop over the meshes, the quaternion of corner c
\* at frame f is at slot 1 + f*vertex_count + c of the rotation buffer.
C3_IndexedByCorner ==
    pc = "return" =>
        \A f \in 0 .. frame_count - 1 : \A c \in 0 .. LoopCount - 1 :
            LET s == 1 + f * vertex_count + c
            IN  s \in DOMAIN normals /\ normals[s] = QuatPixel(f, c)

CornersOf(v) == { l \in 0 .. LoopCount - 1 : meshes[1].vertex_index[l] = v }

\* C3 amended: after the loop over the meshes, slot 1 + f*vertex_count + v of
\* the rotation buffer holds the quaternion of the last corner whose vertex
\* index is v (all corners of v write that one slot), and stays zero for a
\* vertex no corner refers to.
C3_IndexedByVertexIndex ==
    pc = "return" =>
        \A f \in 0 .. frame_count - 1 : \A v \in 0 .. vertex_count - 1 :
            normals[1 + f * vertex_count + v] =
                IF CornersOf(v) = {} THEN ZeroPixel
                ELSE QuatPixel(f, Max(CornersOf(v)))

C3_Witness ==
    /\ pc = "return"
    /\ \E f \in 0 .. frame_count - 1 : \E c, d \in 0 .. LoopCount - 1 :
          /\ c < d
          /\ meshes[1].vertex_index[c] = meshes[1].vertex_index[d]
          /\ QuatPixel(f, c) # QuatPixel(f, d)
          /\ normals[1 + f * vertex_count + meshes[1].vertex_index[c]] = QuatPixel(f, d)

\* C4: in Z-curve mode every linear index below vertex_count*frame_count + 1
\* decodes to a cell inside the final grid, and no two of them to the same
\* cell.
C4_ZCurveCellsUnique ==
    (zcurve /\ pc \in {"scatter", "bake", "finished"}) =>
        LET n == vertex_count * frame_count + 1
            cell == [i \in 0 .. n - 1 |-> <<DecodeMorton2X(i), DecodeMorton2Y(i)>>]
        IN  /\ \A i \in 0 .. n - 1 :
                  /\ 0 <= cell[i][1] /\ cell[i][1] < imageWidth
                  /\ 0 <= cell[i][2] /\ cell[i][2] < imageHeight
            /\ Cardinality({cell[i] : i \in 0 .. n - 1}) = n

C4_Witness ==
    /\ zcurve
    /\ pc = "scatter"
    /\ idx = num_elements
    /\ num_elements = vertex_count * frame_count + 1
    /\ num_elements >= 10
    /\ \A i \in 0 .. num_elements - 1 :
          offsets_z_curved[<<DecodeMorton2Y(i), DecodeMorton2X(i)>>] = offsets[i]

PastVertexCheck == pc \in {"check_frames", "check_pixels", "sample", "cancelled"}

\* C5: with allowed modifiers, validation ends with the vertex-limit error
\* exactly when vertex_count > 16,773,120; vertex_count = 16,773,120 passes
\* when the other limits hold.
C5_VertexLimit ==
    (modifiers_allowed /\ PastVertexCheck) =>
        /\ (pc = "cancelled" /\ report = "VertexLimitExceeded") <=> (vertex_count > 16773120)
        /\ (/\ vertex_count = 16773120
            /\ frame_count <= 4096
            /\ frame_count * vertex_count + 1 <= 67108864
            /\ pc \notin {"check_frames", "check_pixels"}) => pc = "sample"

C5_Witness ==
    /\ vertex_count = 16773120
    /\ pc = "sample"
    /\ report = "none"

\* C6: with allowed modifiers and the vertex limit kept, validation ends with
\* the frame-limit error exactly when frame_count > 4096; frame_count = 4096
\* passes when the other limits hold.
C6_FrameLimit ==
    (modifiers_allowed /\ vertex_count <= 16773120 /\ pc \in {"check_pixels", "sample", "cancelled"}) =>
        /\ (pc = "cancelled" /\ report = "FrameLimitExceeded") <=> (frame_count > 4096)
        /\ (/\ frame_count = 4096
            /\ frame_count * vertex_count + 1 <= 67108864
            /\ pc # "check_pixels") => pc = "sample"

C6_Witness ==
    /\ frame_count = 4096
    /\ pc = "sample"
    /\ report = "none"

\* C7: with allowed modifiers and the vertex and frame limits kept, validation
\* ends with PixelBudgetExceeded exactly when frame_count*vertex_count + 1 >
\* 8192*8192, and a run past validation has frame_count*vertex_count + 1 <=
\* 8192*8192.
C7_PixelBudget ==
    /\ (modifiers_allowed /\ vertex_count <= 16773120 /\ frame_count <= 4096
            /\ pc \in {"sample", "cancelled"}) =>
          ((pc = "cancelled" /\ report = "PixelBudgetExceeded")
              <=> (frame_count * vertex_count + 1 > 67108864))
    /\ (~Validating /\ pc # "cancelled") =>
          frame_count * vertex_count + 1 <= 67108864

C7_Witness ==
    /\ frame_count * vertex_count + 1 = 67108864
    /\ pc = "sample"
    /\ report = "none"

\* C8: the grid handed to the textures has width*height >= vertex_count *
\* frame_count in linear mode and >= vertex_count*frame_count + 1 in Z-curve
\* mode, and each texture gets exactly width*height pixels.
C8_GridHoldsAllPixels ==
    pc = "finished" =>
        /\ offset_texture.width = imageWidth /\ offset_texture.height = imageHeight
        /\ normal_texture.width = imageWidth /\ normal_texture.height = imageHeight
        /\ ~zcurve => imageWidth * imageHeight >= vertex_count * frame_count
        /\ zcurve => imageWidth * imageHeight >= vertex_count * frame_count + 1
        /\ Size(offset_texture.pixels) = imageWidth * imageHeight
        /\ Size(normal_texture.pixels) = imageWidth * imageHeight

C8_Witness ==
    /\ pc = "finished"
    /\ ~zcurve
    /\ vertex_count * frame_count >= 6
    /\ Size(offset_texture.pixels) = vertex_count * frame_count

\* vertex v of frame f (0-based) has had its offset stored
OffsetStored(f, v) ==
    \/ pc \in {"return", "layout"}
    \/ f < mi - 1
    \/ f = mi - 1 /\ (pc = "loops" \/ v < cur)

C9_SlotsSoFar ==
    pc \in {"vertices", "loops", "return", "layout"} =>
        /\ DOMAIN offsets = 0 .. vertex_count * frame_count
        /\ offsets[0] = HeaderPixel(vertex_count, frame_count)
        /\ \A f \in 0 .. frame_count - 1 : \A v \in 0 .. vertex_count - 1 :
              LET d == VecSub(meshes[f + 1].co[v], meshes[1].co[v])
              IN  offsets[1 + f * vertex_count + v] =
                      IF OffsetStored(f, v) THEN <<d[1], d[2], d[3], 1>>
                      ELSE ZeroPixel

C9_WritesOneFreshSlot ==
    pc \in {"vertices", "loops"} =>
        \A s, t \in DOMAIN offsets :
            (offsets'[s] # offsets[s]) =>
                (s # 0 /\ offsets[s] = ZeroPixel /\ (offsets'[t] # offsets[t] => t = s))

\* C9: throughout get_vertex_data's loop the offsets array has
\* vertex_count*frame_count + 1 slots, slot 0 holds the header, slot
\* 1 + f*vertex_count + v holds (position_f[v] - position_0[v], 1) once vertex
\* v of frame f is done and is still zero before; a step of the loop writes
\* at most one slot, which was zero (never written) and is not slot 0.
C9_OffsetSlots == []C9_SlotsSoFar /\ [][C9_WritesOneFreshSlot]_vars

C9_Witness ==
    /\ pc = "return"
    /\ vertex_count = 3
    /\ frame_count = 2
    /\ meshes[1].co = (0 :> <<0, 0, 0>> @@ 1 :> <<1, 0, 0>> @@ 2 :> <<0, 1, 0>>)
    /\ meshes[2].co = (0 :> <<0, 0, 1>> @@ 1 :> <<1, 0, 1>> @@ 2 :> <<0, 1, 1>>)
    /\ offsets[4] = <<0, 0, 1, 1>> /\ offsets[5] = <<0, 0, 1, 1>> /\ offsets[6] = <<0, 0, 1, 1>>
    /\ DecodeHeader(offsets[0][1], offsets[0][2]) = 3
    /\ DecodeHeaderLSH(offsets[0][3]) = 2

\* the loop get_vertex_data is at, against the same loop of the reference
AtLoop == pc = "loops" /\ cur < NumLoops(meshes[mi])
SameNormal == meshes[1].normal[cur] = meshes[mi].normal[cur]
SameTangent == meshes[1].tangent[cur] = meshes[mi].tangent[cur]
StoredSlot == RotationSlot(start_of_frame, meshes[mi], cur)

C10_StoresIdentity ==
    (AtLoop /\ SameNormal /\ pc' = "loops" /\ cur' = cur + 1) =>
        normals'[StoredSlot] = IdentityQuat

C10_StoresMatrixPath ==
    (AtLoop /\ SameNormal) =>
        /\ pc' = "raised" <=> Cross(meshes[mi].normal[cur], meshes[mi].tangent[cur]) = <<0, 0, 0>>
        /\ pc' = "raised" => normals' = normals
        /\ pc' = "loops" => ((normals'[StoredSlot] = IdentityQuat) <=> SameTangent)

Cell(tex, x, y) == tex.pixels[y * tex.width + x]

\* the rotation sample of vertex v at frame f (0-based): the quaternion of
\* the last corner of v, zero for a vertex without corners
VertexQuatPixel(f, v) ==
    IF CornersOf(v) = {} THEN ZeroPixel ELSE QuatPixel(f, Max(CornersOf(v)))

\* C11: in linear mode both textures are vertex_count wide and frame_count
\* high, hold vertex_count*frame_count pixels without the header pixel, and
\* the sample of vertex v at frame f is at cell (x = v, y = f), flat pixel
\* f*width + v, of the offset texture and of the rotation texture.
C11_LinearCells ==
    (pc = "finished" /\ ~zcurve) =>
        /\ offset_texture.width = vertex_count
        /\ offset_texture.height = frame_count
        /\ normal_texture.width = vertex_count
        /\ normal_texture.height = frame_count
        /\ DOMAIN offset_texture.pixels = 0 .. vertex_count * frame_count - 1
        /\ DOMAIN normal_texture.pixels = 0 .. vertex_count * frame_count - 1
        /\ \A f \in 0 .. frame_count - 1 : \A v \in 0 .. vertex_count - 1 :
              /\ Cell(offset_texture, v, f) = OffsetPixel(meshes[1], meshes[f + 1], v)
              /\ Cell(normal_texture, v, f) = VertexQuatPixel(f, v)

C11_Witness ==
    /\ pc = "finished"
    /\ ~zcurve
    /\ vertex_count = 3
    /\ frame_count = 2
    /\ \E v \in 0 .. vertex_count - 1 :
          /\ OffsetPixel(meshes[1], meshes[2], v) # <<0, 0, 0, 1>>
          /\ Cell(offset_texture, v, 1) = OffsetPixel(meshes[1], meshes[2], v)
          /\ Cell(offset_texture, v, 1) # HeaderPixel(vertex_count, frame_count)
          /\ VertexQuatPixel(1, v) # IdentityQuat
          /\ Cell(normal_texture, v, 1) = VertexQuatPixel(1, v)

\* In the full run, the state the layout starts in is the one the Z-curve
\* packer is started in on its own.
LayoutStateAsReturned ==
    pc = "layout" =>
        /\ offsets = ReturnedOffsets(meshes, vertex_count)
        /\ normals = ReturnedNormals(meshes, vertex_count)
        /\ num_elements = vertex_count * frame_count + 1

\* In the full run, the grids the scatter steps leave are the ones the loop
\* taken in one step leaves.
ScatterStepsAsLoop ==
    (pc = "scatter" /\ idx = num_elements) =>
        LET zeros == [c \in DOMAIN offsets_z_curved |-> ZeroPixel]
        IN  /\ offsets_z_curved = ScatterLoop(zeros, offsets, 0, num_elements)
            /\ normals_z_curved = ScatterLoop(zeros, normals, 0, num_elements)

\* the cells <<x, y>> that the indices below n decode to
ZCurveImage(n) == { <<DecodeMorton2X(i), DecodeMorton2Y(i)>> : i \in 0 .. n - 1 }

\* w is the smallest multiple of the granularity that is >= m + 1
SmallestMultipleAbove(w, m) ==
    /\ w % 32 = 0
    /\ w >= m + 1
    /\ w - 32 < m + 1

\* C12: in Z-curve mode, with max_x and max_y the largest decoded x and y
\* over the indices below vertex_count*frame_count + 1, both textures are as
\* wide as the smallest multiple of 32 that is >= max_x + 1 and as high as
\* the smallest multiple of 32 that is >= max_y + 1, the header pixel is at
\* cell (0,0), and every cell no index decodes to holds (0,0,0,0).
C12_ZCurveGrid ==
    (pc = "finished" /\ zcurve) =>
        LET n == vertex_count * frame_count + 1
            image == ZCurveImage(n)
            max_x == Max({ c[1] : c \in image })
            max_y == Max({ c[2] : c \in image })
            w == offset_texture.width
            h == offset_texture.height
        IN  /\ SmallestMultipleAbove(w, max_x)
            /\ SmallestMultipleAbove(h, max_y)
            /\ normal_texture.width = w
            /\ normal_texture.height = h
            /\ DOMAIN offset_texture.pixels = 0 .. w * h - 1
            /\ DOMAIN normal_texture.pixels = 0 .. w * h - 1
            /\ Cell(offset_texture, 0, 0) = HeaderPixel(vertex_count, frame_count)
            /\ Cell(normal_texture, 0, 0) = HeaderPixel(vertex_count, frame_count)
            /\ \A x \in 0 .. w - 1 : \A y \in 0 .. h - 1 :
                  <<x, y>> \notin image =>
                      /\ Cell(offset_texture, x, y) = ZeroPixel
                      /\ Cell(normal_texture, x, y) = ZeroPixel

\* 1025 pixels: index 1024 is the first to leave the 32 x 32 granule, to
\* cell (32, 0) of a grid 64 wide and 32 high
C12_Witness ==
    /\ pc = "finished"
    /\ zcurve
    /\ vertex_count * frame_count + 1 = 1025
    /\ offset_texture.width = 64
    /\ offset_texture.height = 32
    /\ Cell(offset_texture, 32, 0) = <<0, 0, 1, 1>>
    /\ Cell(offset_texture, 33, 0) = ZeroPixel
    /\ Cell(normal_texture, 63, 31) = ZeroPixel
    /\ Cell(offset_texture, 0, 0) = HeaderPixel(vertex_count, frame_count)

\* In the Z-curve packer, the largest decoded x and y found by going through
\* every index are the ones worked out from the bits of the last index.
MaxMortonAsEnumerated ==
    pc = "scatter" =>
        LET image == ZCurveImage(num_elements)
        IN  /\ Max({ c[1] : c \in image }) = MaxMortonX(num_elements - 1)
            /\ Max({ c[2] : c \in image }) = MaxMortonY(num_elements - 1)
            /\ imageWidth = CeilToGranularity(MaxMortonX(num_elements - 1) + 1,
                                              imageWidthGranularity)
            /\ imageHeight = CeilToGranularity(MaxMortonY(num_elements - 1) + 1,
                                               imageHeightGranularity)

\* C13: an animation that passed the three capacity checks gets, in Z-curve
\* mode, a grid at most 8192 wide and at most 8192 high, the rounding up to
\* 32 included; in linear mode the width is the vertex count itself, which
\* the checks let past 8192.
C13_ZCurveWithinTextureLimit ==
    pc = "sized" =>
        /\ zcurve => (imageWidth <= 8192 /\ imageHeight <= 8192)
        /\ ~zcurve => (imageWidth = vertex_count /\ imageHeight = frame_count)
        /\ (~zcurve /\ vertex_count > 8192) => imageWidth > 8192

\* 24573 x 2731 + 1 = 8192*8192 pixels: the full 8192 x 8192 grid
C13_Witness ==
    /\ pc = "sized"
    /\ zcurve
    /\ vertex_count * frame_count + 1 = 67108864
    /\ imageWidth = 8192
    /\ imageHeight = 8192

\* a linear texture wider than 8192 that passed the checks
C13_LinearOverLimit ==
    /\ pc = "sized"
    /\ ~zcurve
    /\ vertex_count = VertexLimit
    /\ imageWidth > 8192

====
